---------------------------- MODULE Spec2Model ----------------------------
(***************************************************************************)
(* A model of pigeon's native-messaging host (src/server/src/main.rs):     *)
(* the read/decode/handle/respond loop of main, the message formatter, the *)
(* tmux dispatcher and the response encoder.                               *)
(*                                                                         *)
(* Text is a TLA+ string.  The alphabet is ASCII; three characters stand   *)
(* for characters whose UTF-8 encoding is longer than one byte (see        *)
(* Utf8Width), and one for a byte that is not valid UTF-8 in a             *)
(* subprocess's output (see InvalidByte).  The grave accent cannot occur   *)
(* in a TLA+ string, so Backtick stands for it.  An Option<T> is a         *)
(* sequence of length at most one: None is <<>>, Some(x) is <<x>>.         *)
(*                                                                         *)
(* What the code computes with a loop or an iterator is a recursive        *)
(* function here, f[x \in S], which TLC applies to values.                 *)
(***************************************************************************)
EXTENDS Integers, Sequences, FiniteSets, TLC

None == <<>>
Some(x) == <<x>>

---------------------------------------------------------------------------
(* Text helpers                                                            *)

Char(s, i) == SubSeq(s, i, i)

StartsWith(s, p) == Len(p) <= Len(s) /\ SubSeq(s, 1, Len(p)) = p

EndsWith(s, p) == Len(p) <= Len(s) /\ SubSeq(s, Len(s) - Len(p) + 1, Len(s)) = p

\* The positions at which p occurs in s.
Occurrences(s, p) == {i \in 1..(Len(s) - Len(p) + 1) : SubSeq(s, i, i + Len(p) - 1) = p}

\* Stand-ins for characters of 2, 3 and 4 UTF-8 bytes (U+00E9, U+3042, U+1F600).
TwoByteChar == "~"
ThreeByteChar == "^"
FourByteChar == "@"

\* Stand-ins for a byte that is not valid UTF-8 (0xFF) in the output of a
\* subprocess, and for U+FFFD, which from_utf8_lossy puts in its place.
InvalidByte == "$"
ReplacementChar == "%"

\* The number of bytes of character c in UTF-8, as str::len and char_indices count them.
Utf8Width(c) ==
    IF c = TwoByteChar THEN 2
    ELSE IF c = ThreeByteChar THEN 3
    ELSE IF c = FourByteChar THEN 4
    ELSE IF c = ReplacementChar THEN 3
    ELSE 1

\* The bytes of characters lo..hi of s (halving, so that a long text needs no
\* deep recursion).
ByteLenRange[s \in STRING, lo \in Int, hi \in Int] ==
    IF lo > hi THEN 0
    ELSE IF lo = hi THEN Utf8Width(Char(s, lo))
    ELSE LET mid == (lo + hi) \div 2
         IN  ByteLenRange[s, lo, mid] + ByteLenRange[s, mid + 1, hi]

\* str::len: the length of s in bytes.
ByteLen(s) == ByteLenRange[s, 1, Len(s)]

\* char_indices: the byte offset at which character k of s starts.
ByteOffset(s, k) == ByteLenRange[s, 1, k - 1]

Digit(d) == Char("0123456789", d + 1)

\* Display for u64, as format!("{s}") prints it: decimal, no padding.
DecimalDigits[n \in Nat] ==
    IF n < 10 THEN Digit(n) ELSE DecimalDigits[n \div 10] \o Digit(n % 10)

ToDecimal(n) == DecimalDigits[n]

---------------------------------------------------------------------------
(* format_message                                                          *)

\* The byte length above which the code excerpt is cut.
MaxCodeBytes == 2000

TruncatedSuffix == "...(truncated)"
DeletedMarker == " (deleted lines)"
DefaultQuestion == "Explain this code"

\* Stand-in for the grave accent (U+0060) of the code fence.
Backtick == "'"
Fence == Backtick \o Backtick \o Backtick

\* As LocationSuffix, without the s != e guard of the first arm.
LocationSuffixAlwaysRange(start_line, end_line) ==
    IF start_line # None /\ end_line # None
    THEN ":" \o ToDecimal(start_line[1]) \o "-" \o ToDecimal(end_line[1])
    ELSE IF start_line # None
    THEN ":" \o ToDecimal(start_line[1])
    ELSE ""

\* match (start_line, end_line): the first arm needs both and s != e, the
\* second only start_line.
LocationSuffix(start_line, end_line) ==
    IF start_line # None /\ end_line # None /\ start_line[1] # end_line[1]
    THEN ":" \o ToDecimal(start_line[1]) \o "-" \o ToDecimal(end_line[1])
    ELSE IF start_line # None
    THEN ":" \o ToDecimal(start_line[1])
    ELSE ""

\* As SideMarker, marking every side but "new".
SideMarkerUnlessNew(side) == IF side = Some("new") THEN "" ELSE DeletedMarker

\* if side == Some("old") { msg.push_str(" (deleted lines)") }
SideMarker(side) == IF side = Some("old") THEN DeletedMarker ELSE ""

\* char_indices().map(|(i, _)| i).take_while(|&i| i <= 2000).last(): the index
\* of the last character of code, among lo..hi, that starts at or before byte
\* offset MaxCodeBytes.  Offsets grow with the index, so take_while keeps a
\* prefix of the characters and the search may halve; character lo is kept.
LastBoundary[code \in STRING, lo \in Int, hi \in Int] ==
    IF lo >= hi THEN lo
    ELSE LET mid == (lo + hi + 1) \div 2
         IN  IF ByteOffset(code, mid) <= MaxCodeBytes
             THEN LastBoundary[code, mid, hi]
             ELSE LastBoundary[code, lo, mid - 1]

\* As TruncatedCode, with take_while(|&i| i < 2000).
TruncatedCodeBelow(code) ==
    IF ByteLen(code) > MaxCodeBytes
    THEN LET last == LastBoundary[code, 1, Len(code)]
         IN  SubSeq(code, 1, IF ByteOffset(code, last) = MaxCodeBytes THEN last - 2 ELSE last - 1)
                 \o TruncatedSuffix
    ELSE code

\* &code[..end]: the characters before the one that starts at byte offset end.
TruncatedCode(code) ==
    IF ByteLen(code) > MaxCodeBytes
    THEN SubSeq(code, 1, LastBoundary[code, 1, Len(code)] - 1) \o TruncatedSuffix
    ELSE code

\* As QuestionPart, taking a question of white space for an empty one.
QuestionPartTrimmed(question) ==
    IF question # "" /\ question # " " THEN question ELSE DefaultQuestion

\* if !question.is_empty() { push_str(question) } else { push_str("Explain this code") }
QuestionPart(question) == IF question # "" THEN question ELSE DefaultQuestion

\* As format_message, without the line feed between the excerpt and the closing fence.
format_messageNoBreak(file, start_line, end_line, side, code, question) ==
    file \o LocationSuffix(start_line, end_line) \o SideMarker(side) \o "\n"
         \o Fence \o "\n" \o TruncatedCode(code) \o Fence \o "\n"
         \o QuestionPart(question)

format_message(file, start_line, end_line, side, code, question) ==
    file \o LocationSuffix(start_line, end_line) \o SideMarker(side) \o "\n"
         \o Fence \o "\n" \o TruncatedCode(code) \o "\n" \o Fence \o "\n"
         \o QuestionPart(question)

---------------------------------------------------------------------------
(* Framed channel                                                          *)

\* What arrives on stdin for one read_message call: `prefix` is how many of
\* the 4 length bytes arrive before the stream ends, `complete` whether all
\* the announced body bytes arrive, `utf8` whether they are valid UTF-8, and
\* `body` the text they encode.  A body is held as the JSON document it
\* spells (see FromStr).
PrefixBytes == 4

\* As read_message, with String::from_utf8_lossy in place of from_utf8.
read_messageLossy(frame) ==
    IF frame.prefix < PrefixBytes THEN [ok |-> FALSE, err |-> "UnexpectedEof"]
    ELSE IF ~frame.complete THEN [ok |-> FALSE, err |-> "UnexpectedEof"]
    ELSE [ok |-> TRUE, err |-> "none"]

\* io::Result<String>: read_exact of the prefix, read_exact of the body,
\* String::from_utf8.
read_message(frame) ==
    IF frame.prefix < PrefixBytes THEN [ok |-> FALSE, err |-> "UnexpectedEof"]
    ELSE IF ~frame.complete THEN [ok |-> FALSE, err |-> "UnexpectedEof"]
    ELSE IF ~frame.utf8 THEN [ok |-> FALSE, err |-> "InvalidData"]
    ELSE [ok |-> TRUE, err |-> "none"]

\* A usize may pass what fits an integer here, so it is held as two digits
\* in base 2^16: the value of [hi |-> h, lo |-> l] is h * 2^16 + l.
Two16 == 256 * 256

Wide(n) == [hi |-> n \div Two16, lo |-> n % Two16]

WideLess(a, b) == a.hi < b.hi \/ (a.hi = b.hi /\ a.lo < b.lo)

\* a + k and, for b <= a, a - b.
WidePlus(a, k) == [hi |-> a.hi + (a.lo + k) \div Two16, lo |-> (a.lo + k) % Two16]
WideMinus(a, b) ==
    IF a.lo >= b.lo THEN [hi |-> a.hi - b.hi, lo |-> a.lo - b.lo]
    ELSE [hi |-> a.hi - b.hi - 1, lo |-> a.lo + Two16 - b.lo]

\* `len as u32`: the low 32 bits.
AsU32(n) == [hi |-> n.hi % Two16, lo |-> n.lo]

\* u32::to_le_bytes: the four bytes of u, lowest first.
ToLeBytes(u) == <<u.lo % 256, u.lo \div 256, u.hi % 256, u.hi \div 256>>

\* u32::from_le_bytes(len_bytes) as usize.
FromLeBytes(b) == [hi |-> b[3] + 256 * b[4], lo |-> b[1] + 256 * b[2]]

\* What write_message hands to stdout for a text of `size` bytes: the prefix,
\* then all the bytes of the text.
Frame(size, bytes) == [len |-> ToLeBytes(AsU32(size)), bytes |-> bytes]

\* write_message: the length prefix and the bytes handed to stdout.  The code
\* discards the results of write_all and flush; stdout holds what was handed over.
write_message(msg) == Frame(Wide(ByteLen(msg)), msg)

---------------------------------------------------------------------------
(* Request decoder                                                         *)

\* The Request value of a body that does not decode (a placeholder), and of
\* {"action":"list-sessions"}.
NoRequest ==
    [action |-> "none", file |-> "", start_line |-> None, end_line |-> None,
     side |-> None, code |-> "", question |-> "", tmux_target |-> "",
     debug_html |-> None]

ListSessionsRequest == [NoRequest EXCEPT !.action = "list-sessions"]

DecodeError(detail) == [ok |-> FALSE, req |-> NoRequest, error |-> detail]

MissingField(name) == "missing field " \o Backtick \o name \o Backtick

UnknownVariant(name) ==
    "unknown variant " \o Backtick \o name \o Backtick \o ", expected "
        \o Backtick \o "send" \o Backtick \o " or "
        \o Backtick \o "list-sessions" \o Backtick

\* As FromStr, with ListSessions as the variant of every other action
\* (#[serde(other)]).
FromStrOther(raw) ==
    IF ~raw.valid THEN DecodeError("expected value")
    ELSE IF raw.action = None THEN DecodeError(MissingField("action"))
    ELSE IF raw.action = Some("send") THEN
        IF raw.file = None THEN DecodeError(MissingField("file"))
        ELSE IF raw.code = None THEN DecodeError(MissingField("code"))
        ELSE IF raw.question = None THEN DecodeError(MissingField("question"))
        ELSE IF raw.tmux_target = None THEN DecodeError(MissingField("tmux_target"))
        ELSE [ok |-> TRUE, error |-> "",
              req |-> [action |-> "send", file |-> raw.file[1],
                       start_line |-> raw.start_line, end_line |-> raw.end_line,
                       side |-> raw.side, code |-> raw.code[1],
                       question |-> raw.question[1],
                       tmux_target |-> raw.tmux_target[1],
                       debug_html |-> raw.debug_html]]
    ELSE [ok |-> TRUE, error |-> "", req |-> ListSessionsRequest]

\* serde_json::from_str::<Request>: #[serde(tag = "action")] reads the tag
\* first; Send needs file, code, question and tmux_target, in the order of
\* declaration; the Option fields may be absent.
FromStr(raw) ==
    IF ~raw.valid THEN DecodeError("expected value")
    ELSE IF raw.action = None THEN DecodeError(MissingField("action"))
    ELSE IF raw.action = Some("send") THEN
        IF raw.file = None THEN DecodeError(MissingField("file"))
        ELSE IF raw.code = None THEN DecodeError(MissingField("code"))
        ELSE IF raw.question = None THEN DecodeError(MissingField("question"))
        ELSE IF raw.tmux_target = None THEN DecodeError(MissingField("tmux_target"))
        ELSE [ok |-> TRUE, error |-> "",
              req |-> [action |-> "send", file |-> raw.file[1],
                       start_line |-> raw.start_line, end_line |-> raw.end_line,
                       side |-> raw.side, code |-> raw.code[1],
                       question |-> raw.question[1],
                       tmux_target |-> raw.tmux_target[1],
                       debug_html |-> raw.debug_html]]
    ELSE IF raw.action = Some("list-sessions")
    THEN [ok |-> TRUE, error |-> "", req |-> ListSessionsRequest]
    ELSE DecodeError(UnknownVariant(raw.action[1]))

---------------------------------------------------------------------------
(* Response encoder                                                        *)

\* serde_json's escaping of one character of a string.
EscapeChar(c) ==
    IF c = "\"" THEN "\\\""
    ELSE IF c = "\\" THEN "\\\\"
    ELSE IF c = "\n" THEN "\\n"
    ELSE IF c = "\r" THEN "\\r"
    ELSE IF c = "\t" THEN "\\t"
    ELSE c

EscapeRange[s \in STRING, lo \in Int, hi \in Int] ==
    IF lo > hi THEN ""
    ELSE IF lo = hi THEN EscapeChar(Char(s, lo))
    ELSE LET mid == (lo + hi) \div 2
         IN  EscapeRange[s, lo, mid] \o EscapeRange[s, mid + 1, hi]

JsonString(s) == "\"" \o EscapeRange[s, 1, Len(s)] \o "\""

JsonBool(b) == IF b THEN "true" ELSE "false"

JsonElements[xs \in Seq(STRING), i \in Nat] ==
    IF i > Len(xs) THEN ""
    ELSE (IF i > 1 THEN "," ELSE "") \o JsonString(xs[i]) \o JsonElements[xs, i + 1]

JsonArray(xs) == "[" \o JsonElements[xs, 1] \o "]"

\* #[derive(Serialize)] struct SendResponse: ok, then error unless it is None.
SendResponseJson(r) ==
    "{\"ok\":" \o JsonBool(r.ok)
        \o (IF r.error # None THEN ",\"error\":" \o JsonString(r.error[1]) ELSE "")
        \o "}"

\* #[derive(Serialize)] struct ListSessionsResponse: ok, then sessions and
\* error, each unless it is None.
ListSessionsResponseJson(r) ==
    "{\"ok\":" \o JsonBool(r.ok)
        \o (IF r.sessions # None THEN ",\"sessions\":" \o JsonArray(r.sessions[1]) ELSE "")
        \o (IF r.error # None THEN ",\"error\":" \o JsonString(r.error[1]) ELSE "")
        \o "}"

---------------------------------------------------------------------------
(* Session dispatcher                                                      *)

Candidates == <<"/opt/homebrew/bin/tmux", "/usr/local/bin/tmux", "/usr/bin/tmux">>

\* for path in candidates { if Path::new(path).exists() { return path } }
FirstExisting[existing \in SUBSET STRING, i \in Nat] ==
    IF i > Len(Candidates) THEN "tmux"
    ELSE IF Candidates[i] \in existing THEN Candidates[i]
    ELSE FirstExisting[existing, i + 1]

\* As find_tmux, returning the last candidate that exists.
find_tmuxLast(existing) ==
    IF Candidates[3] \in existing THEN Candidates[3]
    ELSE IF Candidates[2] \in existing THEN Candidates[2]
    ELSE IF Candidates[1] \in existing THEN Candidates[1]
    ELSE "tmux"

find_tmux(existing) == FirstExisting[existing, 1]

\* As SendTextArgs, with a fallback session when the request names none.
SendTextArgsFallback(message, target) ==
    <<"send-keys", "-t", IF target = "" THEN "claude" ELSE target, message>>

\* The argument vectors of the three invocations.
SendTextArgs(message, target) == <<"send-keys", "-t", target, message>>
SendEnterArgs(target) == <<"send-keys", "-t", target, "Enter">>
ListSessionsArgs == <<"list-sessions", "-F", "#{session_name}">>

\* .map_err(|e| format!("Failed to run tmux: {e}"))
LaunchError(cause) == "Failed to run tmux: " \o cause

\* format!("tmux list-sessions failed: {stderr}")
ListFailedError(stderr) == "tmux list-sessions failed: " \o stderr

\* String::from_utf8_lossy: every invalid byte becomes U+FFFD.
LossyChar(c) == IF c = InvalidByte THEN ReplacementChar ELSE c

LossyRange[bytes \in STRING, lo \in Int, hi \in Int] ==
    IF lo > hi THEN ""
    ELSE IF lo = hi THEN LossyChar(Char(bytes, lo))
    ELSE LET mid == (lo + hi) \div 2
         IN  LossyRange[bytes, lo, mid] \o LossyRange[bytes, mid + 1, hi]

FromUtf8Lossy(bytes) == LossyRange[bytes, 1, Len(bytes)]

\* What str::lines does to one piece that ended in "\n": the "\n" is already
\* off, and one "\r" before it goes too.
StripCr(line) == IF EndsWith(line, "\r") THEN SubSeq(line, 1, Len(line) - 1) ELSE line

\* str::lines: the pieces of s that end in "\n", without their line ending,
\* and the rest of s after the last "\n" if it is not empty, as it is.
\* `start` is where the current piece began, i the character looked at.
LinesFrom[s \in STRING, start \in Int, i \in Int] ==
    IF i > Len(s) THEN (IF start > Len(s) THEN <<>> ELSE <<SubSeq(s, start, Len(s))>>)
    ELSE IF Char(s, i) = "\n"
    THEN <<StripCr(SubSeq(s, start, i - 1))>> \o LinesFrom[s, i + 1, i + 1]
    ELSE LinesFrom[s, start, i + 1]

\* As Lines, splitting at every "\n" and keeping what follows the last one.
LinesKeepLast(s) ==
    IF s = "" \/ EndsWith(s, "\n") THEN Append(LinesFrom[s, 1, 1], "") ELSE LinesFrom[s, 1, 1]

Lines(s) == LinesFrom[s, 1, 1]

\* A Result<_, String> of the dispatcher: Ok(()) of send_to_tmux carries no sessions.
Ok(sessions) == [ok |-> TRUE, sessions |-> sessions, error |-> ""]
Err(e) == [ok |-> FALSE, sessions |-> <<>>, error |-> e]

\* list_sessions once the subprocess has exited with `code`, having written
\* out to standard output and err to standard error.
ListSessionsResult(code, out, err) ==
    IF code # 0
    THEN Err(ListFailedError(FromUtf8Lossy(err)))
    ELSE Ok(Lines(FromUtf8Lossy(out)))

\* handle_request's match on the result of send_to_tmux.
SendResponse(r) == [ok |-> r.ok, error |-> IF r.ok THEN None ELSE Some(r.error)]

\* As ListSessionsResponse, with an empty sessions list beside the error.
ListSessionsResponseBoth(r) ==
    [ok |-> r.ok,
     sessions |-> Some(r.sessions),
     error |-> IF r.ok THEN None ELSE Some(r.error)]

\* handle_request's match on the result of list_sessions.
ListSessionsResponse(r) ==
    [ok |-> r.ok,
     sessions |-> IF r.ok THEN Some(r.sessions) ELSE None,
     error |-> IF r.ok THEN None ELSE Some(r.error)]

\* As InvalidJsonResponse, with the decoder's text alone.
InvalidJsonResponseBare(e) == [ok |-> FALSE, error |-> Some(e)]

\* main's response to a body that does not decode.
InvalidJsonResponse(e) == [ok |-> FALSE, error |-> Some("Invalid JSON: " \o e)]

\* As DebugWrite, appending to the file (OpenOptions::append) where fs::write replaces.
DebugWriteAppend(file, html, env) ==
    IF html = None THEN file
    ELSE IF env = "ok" THEN (IF file = None THEN html ELSE Some(file[1] \o html[1]))
    ELSE IF env = "write_failed" THEN Some("")
    ELSE file

\* std::fs::write(debug_path, html) under `if let Ok(home) = env::var("HOME")`:
\* the file after the attempt.  fs::write creates (truncates) and then writes.
DebugWrite(file, html, env) ==
    IF html = None THEN file
    ELSE IF env = "ok" THEN html
    ELSE IF env = "write_failed" THEN Some("")
    ELSE file

---------------------------------------------------------------------------
(* The process                                                             *)

VARIABLES
    pc,          \* where the process is: see the actions below
    stdin,       \* "open", or "closed" once the caller has closed the stream
    nread,       \* how many times read_message has returned Ok
    readResult,  \* the outcome of the latest read_message call
    raw,         \* main's raw: the body read_message returned
    req,         \* handle_request's req
    debugFile,   \* the contents of $HOME/.config/pigeon/debug.json, an Option
    message,     \* handle_request's message
    existing,    \* the candidate paths that exist on disk as find_tmux probes them
    tmux,        \* send_to_tmux's / list_sessions's tmux
    calls,       \* the subprocess invocations made for the current request
    result,      \* what send_to_tmux / list_sessions returned
    stdout       \* the frames written so far (write_message ignores what write_all returns)

vars == <<pc, stdin, nread, readResult, raw, req, debugFile, message, existing,
          tmux, calls, result, stdout>>

\* Bounds of the model.
MaxReads == 2
MaxOutLen == 3
MaxLine == 2

\* ---- the inputs the environment may supply ----

Doc(action, file, start_line, end_line, side, code, question, tmux_target, debug_html) ==
    [valid |-> TRUE, action |-> action, file |-> file, start_line |-> start_line,
     end_line |-> end_line, side |-> side, code |-> code, question |-> question,
     tmux_target |-> tmux_target, debug_html |-> debug_html]

EmptyDoc == Doc(None, None, None, None, None, None, None, None, None)
GarbageDoc == [EmptyDoc EXCEPT !.valid = FALSE]
ListDoc == [EmptyDoc EXCEPT !.action = Some("list-sessions")]
UnknownDoc == [EmptyDoc EXCEPT !.action = Some("unknown")]
SendDocBasic ==
    Doc(Some("send"), Some("a.rs"), Some(5), Some(9), None, Some("fn f(){}"),
        Some("why?"), Some("work"), None)
SendDocDebug ==
    Doc(Some("send"), Some("old.rs"), Some(5), None, Some("old"), Some("x"),
        Some(""), Some(""), Some("<p>"))

RequestDocs == {GarbageDoc, UnknownDoc, ListDoc, SendDocBasic, SendDocDebug}

GoodFrame(doc) == [prefix |-> PrefixBytes, complete |-> TRUE, utf8 |-> TRUE, body |-> doc]

BadFrames ==
    {[prefix |-> n, complete |-> FALSE, utf8 |-> TRUE, body |-> GarbageDoc] : n \in 0..PrefixBytes}
        \cup {[prefix |-> PrefixBytes, complete |-> TRUE, utf8 |-> FALSE, body |-> GarbageDoc]}

Frames == {GoodFrame(d) : d \in RequestDocs} \cup BadFrames

DebugWriteEnvs == {"ok", "no_home", "create_failed", "write_failed"}

\* What may exist on disk when find_tmux probes it.
Disks == {{}, {Candidates[3]}, {Candidates[1], Candidates[2]}}

\* The io::Error a failed launch is reported with.
LaunchCauses == {"No such file or directory (os error 2)"}

ExitCodes == {0, 1}

\* What a list-sessions subprocess may leave behind: its exit code, standard
\* output and standard error.
Output(code, out, err) == [code |-> code, out |-> out, err |-> err]

SampleOutputs ==
    {Output(0, "work\ndev\n", ""), Output(0, "", ""), Output(0, "dev", "warning"),
     Output(1, "", "no server running on /tmp/tmux-0/default\n")}

\* ---- a subprocess invocation ----

Launched(exe, args) ==
    [exe |-> exe, args |-> args, state |-> "running", cause |-> "", code |-> -1,
     out |-> "", err |-> ""]

NotLaunched(exe, args, cause) ==
    [Launched(exe, args) EXCEPT !.state = "failed", !.cause = cause]

Exited(call, output) ==
    [call EXCEPT !.state = "exited", !.code = output.code, !.out = output.out,
                 !.err = output.err]

NoResult == Err("")

Init ==
    /\ pc = "read"
    /\ stdin = "open"
    /\ nread = 0
    /\ readResult = "none"
    /\ raw = EmptyDoc
    /\ req = NoRequest
    /\ debugFile = None
    /\ message = ""
    /\ existing = {}
    /\ tmux = ""
    /\ calls = <<>>
    /\ result = NoResult
    /\ stdout = <<>>

\* ---- the caller ----

\* The caller closes the input stream; the process has not exited yet.
CloseStdin ==
    /\ stdin = "open"
    /\ pc # "done"
    /\ stdin' = "closed"
    /\ UNCHANGED <<pc, nread, readResult, raw, req, debugFile, message,
                   existing, tmux, calls, result, stdout>>

\* ---- main ----

\* write_json: `let json = serde_json::to_string(value)`, then write_message(&json).
write_json(json) == \E text \in {json} : stdout' = Append(stdout, write_message(text))

\* The end of one turn of the loop body: its locals are dropped (and the
\* record of the request's invocations with them).
DropLocals ==
    /\ raw' = EmptyDoc
    /\ req' = NoRequest
    /\ message' = ""
    /\ existing' = {}
    /\ tmux' = ""
    /\ calls' = <<>>
    /\ result' = NoResult

\* `while let Ok(raw) = read_message()`: a frame arrives whole and is valid
\* UTF-8, and the loop body starts on it.
ReadOk(frames, max) ==
    /\ pc = "read"
    /\ stdin = "open"
    /\ nread < max
    /\ \E frame \in frames :
          /\ read_message(frame).ok
          /\ raw' = frame.body
    /\ readResult' = "Ok"
    /\ nread' = nread + 1
    /\ pc' = "decode"
    /\ UNCHANGED <<stdin, req, debugFile, message, existing, tmux, calls,
                   result, stdout>>

\* read_message returns Err and the loop ends: the stream was closed, or this
\* frame is cut short (the stream closes inside it) or is not UTF-8.
ReadErr(frames) ==
    /\ pc = "read"
    /\ \E frame \in frames :
          /\ ~read_message(frame).ok
          /\ stdin = "closed" => frame.prefix = 0
          /\ readResult' = read_message(frame).err
          /\ stdin' = IF read_message(frame).err = "UnexpectedEof" THEN "closed" ELSE stdin
    /\ pc' = "done"
    /\ UNCHANGED <<nread, raw, req, debugFile, message, existing, tmux,
                   calls, result, stdout>>

\* serde_json::from_str(&raw) is Ok(r).
DecodeOk ==
    /\ pc = "decode"
    /\ FromStr(raw).ok
    /\ req' = FromStr(raw).req
    /\ pc' = "handle"
    /\ UNCHANGED <<stdin, nread, readResult, raw, debugFile, message,
                   existing, tmux, calls, result, stdout>>

\* As DecodeErr, leaving the loop after the error response.
DecodeErrBreaks ==
    /\ pc = "decode"
    /\ ~FromStr(raw).ok
    /\ write_json(SendResponseJson(InvalidJsonResponse(FromStr(raw).error)))
    /\ pc' = "done"
    /\ DropLocals
    /\ UNCHANGED <<stdin, nread, readResult, debugFile>>

\* serde_json::from_str(&raw) is Err(e): write the error response and continue.
DecodeErr ==
    /\ pc = "decode"
    /\ ~FromStr(raw).ok
    /\ write_json(SendResponseJson(InvalidJsonResponse(FromStr(raw).error)))
    /\ pc' = "read"
    /\ DropLocals
    /\ UNCHANGED <<stdin, nread, readResult, debugFile>>

\* ---- handle_request, Request::Send ----

\* The debug artifact and format_message.
HandleSend ==
    /\ pc = "handle"
    /\ req.action = "send"
    /\ \E env \in DebugWriteEnvs : debugFile' = DebugWrite(debugFile, req.debug_html, env)
    /\ message' = format_message(req.file, req.start_line, req.end_line, req.side,
                                 req.code, req.question)
    /\ pc' = "send_find"
    /\ UNCHANGED <<stdin, nread, readResult, raw, req, existing, tmux, calls, result,
                   stdout>>

\* handle_request, Request::ListSessions: calls list_sessions.
HandleList ==
    /\ pc = "handle"
    /\ req.action = "list-sessions"
    /\ pc' = "list_find"
    /\ UNCHANGED <<stdin, nread, readResult, raw, req, debugFile, message,
                   existing, tmux, calls, result, stdout>>

\* let tmux = find_tmux(), in send_to_tmux and in list_sessions: the disk is
\* probed as it is at that moment.
FindTmuxOn(disks) ==
    /\ pc \in {"send_find", "list_find"}
    /\ \E ex \in disks :
          /\ existing' = ex
          /\ tmux' = find_tmux(ex)
    /\ pc' = IF pc = "send_find" THEN "send_text" ELSE "list_spawn"
    /\ UNCHANGED <<stdin, nread, readResult, raw, req, debugFile, message,
                   calls, result, stdout>>

\* Command::new(&tmux).args(args): the child starts, and the caller waits at `next`.
Spawn(at, args, next) ==
    /\ pc = at
    /\ calls' = Append(calls, Launched(tmux, args))
    /\ pc' = next
    /\ UNCHANGED <<stdin, nread, readResult, raw, req, debugFile, message, existing,
                   tmux, result, stdout>>

\* The child cannot be started: map_err and `?` return Err to handle_request.
SpawnFails(at, args, next) ==
    /\ pc = at
    /\ \E cause \in LaunchCauses :
          /\ result' = Err(LaunchError(cause))
          /\ calls' = Append(calls, NotLaunched(tmux, args, cause))
    /\ pc' = next
    /\ UNCHANGED <<stdin, nread, readResult, raw, req, debugFile, message, existing,
                   tmux, stdout>>

\* As SendText, not waiting for the child before the second invocation.
SendTextNoWait == Spawn("send_text", SendTextArgs(message, req.tmux_target), "send_enter")

\* As SendTextFails, going on to the second invocation.
SendTextFailsGoesOn ==
    SpawnFails("send_text", SendTextArgs(message, req.tmux_target), "send_enter")

\* send_to_tmux, first invocation.
SendText == Spawn("send_text", SendTextArgs(message, req.tmux_target), "send_text_wait")
SendTextFails ==
    SpawnFails("send_text", SendTextArgs(message, req.tmux_target), "send_respond")

\* As SendTextExits, giving up on a non-zero exit status.
SendTextExitsChecked ==
    /\ pc = "send_text_wait"
    /\ \E code \in ExitCodes :
          /\ calls' = [calls EXCEPT ![Len(calls)] = Exited(@, Output(code, "", ""))]
          /\ result' = IF code = 0 THEN result ELSE Err("tmux send-keys failed")
          /\ pc' = IF code = 0 THEN "send_enter" ELSE "send_respond"
    /\ UNCHANGED <<stdin, nread, readResult, raw, req, debugFile, message,
                   existing, tmux, stdout>>

\* .status() of the first invocation returns; its exit status is not looked at.
SendTextExits ==
    /\ pc = "send_text_wait"
    /\ \E code \in ExitCodes :
          calls' = [calls EXCEPT ![Len(calls)] = Exited(@, Output(code, "", ""))]
    /\ pc' = "send_enter"
    /\ UNCHANGED <<stdin, nread, readResult, raw, req, debugFile, message,
                   existing, tmux, result, stdout>>

\* send_to_tmux, second invocation.
SendEnter == Spawn("send_enter", SendEnterArgs(req.tmux_target), "send_enter_wait")
SendEnterFails == SpawnFails("send_enter", SendEnterArgs(req.tmux_target), "send_respond")

\* .status() of the second invocation returns, and send_to_tmux returns Ok(()).
SendEnterExits ==
    /\ pc = "send_enter_wait"
    /\ \E code \in ExitCodes :
          calls' = [calls EXCEPT ![Len(calls)] = Exited(@, Output(code, "", ""))]
    /\ result' = Ok(<<>>)
    /\ pc' = "send_respond"
    /\ UNCHANGED <<stdin, nread, readResult, raw, req, debugFile, message,
                   existing, tmux, stdout>>

\* As SendRespond, writing nothing when the delivery failed.
SendRespondOkOnly ==
    /\ pc = "send_respond"
    /\ IF result.ok THEN write_json(SendResponseJson(SendResponse(result)))
                    ELSE stdout' = stdout
    /\ pc' = "read"
    /\ DropLocals
    /\ UNCHANGED <<stdin, nread, readResult, debugFile>>

\* write_json(&SendResponse { .. }) and back to the loop.
SendRespond ==
    /\ pc = "send_respond"
    /\ write_json(SendResponseJson(SendResponse(result)))
    /\ pc' = "read"
    /\ DropLocals
    /\ UNCHANGED <<stdin, nread, readResult, debugFile>>

\* ---- list_sessions ----

ListSpawn == Spawn("list_spawn", ListSessionsArgs, "list_wait")
ListSpawnFails == SpawnFails("list_spawn", ListSessionsArgs, "list_respond")

\* .output() returns: the exit status is checked and standard output split.
ListExits(outputs) ==
    /\ pc = "list_wait"
    /\ \E o \in outputs :
          /\ calls' = [calls EXCEPT ![Len(calls)] = Exited(@, o)]
          /\ result' = ListSessionsResult(o.code, o.out, o.err)
    /\ pc' = "list_respond"
    /\ UNCHANGED <<stdin, nread, readResult, raw, req, debugFile, message,
                   existing, tmux, stdout>>

\* write_json(&ListSessionsResponse { .. }) and back to the loop.
ListRespond ==
    /\ pc = "list_respond"
    /\ write_json(ListSessionsResponseJson(ListSessionsResponse(result)))
    /\ pc' = "read"
    /\ DropLocals
    /\ UNCHANGED <<stdin, nread, readResult, debugFile>>

Read == ReadOk(Frames, MaxReads)
FindTmux == FindTmuxOn(Disks)
ReadFails == ReadErr(Frames)
ListSessionsExits == ListExits(SampleOutputs)

\* One step of the process.
Step ==
    \/ Read
    \/ ReadFails
    \/ DecodeOk
    \/ DecodeErr
    \/ HandleSend
    \/ HandleList
    \/ FindTmux
    \/ SendText
    \/ SendTextFails
    \/ SendTextExits
    \/ SendEnter
    \/ SendEnterFails
    \/ SendEnterExits
    \/ SendRespond
    \/ ListSpawn
    \/ ListSpawnFails
    \/ ListSessionsExits
    \/ ListRespond

Next == Step \/ CloseStdin

Spec == Init /\ [][Next]_vars

\* The process is single-threaded and every call it makes returns (the spec's
\* section 5: a subprocess that hangs is outside this), so a step that can be
\* taken is taken.
FairSpec == Spec /\ WF_vars(Step)

---------------------------------------------------------------------------
(* list_sessions on every short output                                     *)

OutAlphabet == {"w", "d", "\n", "\r", InvalidByte}

RECURSIVE TextsOfLen(_)
TextsOfLen(n) ==
    IF n = 0 THEN {""} ELSE {t \o c : t \in TextsOfLen(n - 1), c \in OutAlphabet}

OutTexts == UNION {TextsOfLen(n) : n \in 0..MaxOutLen} \cup {"work\ndev\n", "work\ndev"}

ErrTexts == {"", "no server running on /tmp/tmux-0/default\n", "e" \o InvalidByte}

AllOutputs ==
    {Output(0, out, err) : out \in OutTexts, err \in {"", "warning"}}
        \cup {Output(code, out, err) : code \in {1, 2}, out \in {"", "w\n"}, err \in ErrTexts}

ReadList == ReadOk({GoodFrame(ListDoc)}, 1)
ReadListFails == ReadErr(BadFrames)
ListSessionsExitsAny == ListExits(AllOutputs)

NextList ==
    \/ ReadList
    \/ ReadListFails
    \/ DecodeOk
    \/ HandleList
    \/ FindTmux
    \/ ListSpawn
    \/ ListSpawnFails
    \/ ListSessionsExitsAny
    \/ ListRespond
    \/ CloseStdin

SpecList == Init /\ [][NextList]_vars

---------------------------------------------------------------------------
(* format_message on its own                                               *)

FormatFiles == {"a.rs", "a (deleted lines)"}
FormatLines == {None} \cup {Some(n) : n \in 0..MaxLine} \cup {Some(5), Some(9), Some(10)}
FormatSides == {None, Some("old"), Some("new"), Some("other")}
FormatCodes == {"x", "fn f(){}", "msg.push_str(\" (deleted lines)\");"}
FormatQuestions == {"", "why?", " "}

FormatRequests ==
    {[NoRequest EXCEPT !.action = "send", !.file = f, !.start_line = s, !.end_line = e,
                       !.side = d, !.code = c, !.question = q] :
        f \in FormatFiles, s \in FormatLines, e \in FormatLines, d \in FormatSides,
        c \in FormatCodes, q \in FormatQuestions}

InitFormat ==
    /\ pc = "format"
    /\ req \in FormatRequests
    /\ stdin = "open"
    /\ nread = 0
    /\ readResult = "none"
    /\ raw = EmptyDoc
    /\ debugFile = None
    /\ message = ""
    /\ existing = {}
    /\ tmux = ""
    /\ calls = <<>>
    /\ result = NoResult
    /\ stdout = <<>>

\* let message = format_message(&file, start_line, end_line, side.as_deref(), &code, &question)
Format ==
    /\ pc = "format"
    /\ message' = format_message(req.file, req.start_line, req.end_line, req.side,
                                 req.code, req.question)
    /\ pc' = "formatted"
    /\ UNCHANGED <<stdin, nread, readResult, raw, req, debugFile, existing,
                   tmux, calls, result, stdout>>

SpecFormat == InitFormat /\ [][Format]_vars

---------------------------------------------------------------------------
(* format_message on codes around the cap                                  *)

MaxTail == 2

\* n one-byte characters.
Pad[n \in Nat] ==
    IF n = 0 THEN ""
    ELSE IF n = 1 THEN "a"
    ELSE Pad[n \div 2] \o Pad[n - n \div 2]

TailAlphabet == {"b", TwoByteChar, ThreeByteChar, FourByteChar}

RECURSIVE TailsOfLen(_)
TailsOfLen(n) ==
    IF n = 0 THEN {""} ELSE {t \o c : t \in TailsOfLen(n - 1), c \in TailAlphabet}

\* Codes whose byte length is around MaxCodeBytes, with every mix of 1- to
\* 4-byte characters where the cut falls.
TruncateCodes ==
    {Pad[n] \o t : n \in (MaxCodeBytes - 7)..(MaxCodeBytes + 1),
                   t \in UNION {TailsOfLen(k) : k \in 0..MaxTail}}

TruncateRequests ==
    {[NoRequest EXCEPT !.action = "send", !.file = "a.rs", !.code = c, !.question = "why?"] :
        c \in TruncateCodes}

InitTruncate ==
    /\ pc = "format"
    /\ req \in TruncateRequests
    /\ stdin = "open"
    /\ nread = 0
    /\ readResult = "none"
    /\ raw = EmptyDoc
    /\ debugFile = None
    /\ message = ""
    /\ existing = {}
    /\ tmux = ""
    /\ calls = <<>>
    /\ result = NoResult
    /\ stdout = <<>>

SpecTruncate == InitTruncate /\ [][Format]_vars

---------------------------------------------------------------------------
(* The decoder on every shape of body                                      *)

DecodeActions == {None, Some("send"), Some("list-sessions"), Some("unknown"), Some("")}

\* A field that is absent, or present with value v.
Opt(v) == {None, Some(v)}

\* Bodies with each action and each field present or absent, and one that is
\* not JSON.
DecodeDocs ==
    {Doc(a, f, s, e, d, c, q, t, h) :
        a \in DecodeActions, f \in Opt("a.rs"), s \in Opt(5), e \in Opt(9),
        d \in Opt("old"), c \in Opt("x"), q \in Opt("why?"), t \in Opt("work"),
        h \in Opt("<p>")}
        \cup {GarbageDoc}

\* main has just read a body.
InitDecode ==
    /\ pc = "decode"
    /\ raw \in DecodeDocs
    /\ stdin = "open"
    /\ nread = 1
    /\ readResult = "Ok"
    /\ req = NoRequest
    /\ debugFile = None
    /\ message = ""
    /\ existing = {}
    /\ tmux = ""
    /\ calls = <<>>
    /\ result = NoResult
    /\ stdout = <<>>

NextDecode == DecodeOk \/ DecodeErr

SpecDecode == InitDecode /\ [][NextDecode]_vars

---------------------------------------------------------------------------
(* The framed channel at the level of bytes                                *)

\* In this specification raw is the text handed to write_message, held as
\* its length in bytes alone; stdin is what the input stream holds when
\* read_message is called: the bytes that arrive for the prefix, how many
\* bytes arrive after them before the stream closes, and whether the
\* announced ones are valid UTF-8; result is what read_message made of it.

Text(size) == [size |-> size]

Stream(prefix, body, utf8) == [prefix |-> prefix, body |-> body, utf8 |-> utf8]

NoStream == Stream(<<>>, Wide(0), TRUE)

\* read_message on a stream: the outcome, and for Ok the length of the text
\* returned, the bytes consumed and the bytes left on the stream.
ReadFrame(stream) ==
    LET full == Len(stream.prefix) = PrefixBytes
        len == IF full THEN FromLeBytes(stream.prefix) ELSE Wide(0)
        r == read_message([prefix |-> Len(stream.prefix),
                           complete |-> full /\ ~WideLess(stream.body, len),
                           utf8 |-> stream.utf8, body |-> GarbageDoc])
    IN  [ok |-> r.ok, err |-> r.err,
         len |-> IF r.ok THEN len ELSE Wide(0),
         consumed |-> IF r.ok THEN WidePlus(len, PrefixBytes) ELSE Wide(0),
         rest |-> IF r.ok THEN WideMinus(stream.body, len) ELSE Wide(0)]

\* Lengths of texts, up to a little over 2^32.
WriteSizes ==
    {[hi |-> h, lo |-> l] : h \in {0, 1, 255, 256, Two16 - 1, Two16, Two16 + 1},
                            l \in {0, 1, 255, 256, Two16 - 1}}

ByteSamples == {0, 1, 255}

PrefixesOfLen(n) == [1..n -> ByteSamples]

\* The body sizes around what a prefix announces.
BodiesAround(len) ==
    {Wide(0), len, WidePlus(len, 1), WidePlus(len, 300)}
        \cup (IF len = Wide(0) THEN {} ELSE {WideMinus(len, Wide(1))})

Streams ==
    {Stream(p, Wide(0), TRUE) : p \in UNION {PrefixesOfLen(n) : n \in 0..(PrefixBytes - 1)}}
        \cup UNION {{Stream(p, b, u) : b \in BodiesAround(FromLeBytes(p)), u \in BOOLEAN} :
                        p \in PrefixesOfLen(PrefixBytes)}

InitChannel ==
    /\ \/ pc = "write" /\ raw \in {Text(n) : n \in WriteSizes} /\ stdin = NoStream
       \/ pc = "read" /\ raw = Text(Wide(0)) /\ stdin \in Streams
    /\ nread = 0
    /\ readResult = "none"
    /\ req = NoRequest
    /\ debugFile = None
    /\ message = ""
    /\ existing = {}
    /\ tmux = ""
    /\ calls = <<>>
    /\ result = ReadFrame(NoStream)
    /\ stdout = <<>>

\* write_message(&json)
WriteMessage ==
    /\ pc = "write"
    /\ stdout' = <<Frame(raw.size, raw)>>
    /\ pc' = "written"
    /\ UNCHANGED <<stdin, nread, readResult, raw, req, debugFile, message, existing,
                   tmux, calls, result>>

\* read_message on what write_message wrote, prefix and bytes.  When the
\* prefix announces fewer bytes than were written, the announced ones may
\* end inside a character.
ReadWritten ==
    /\ pc = "written"
    /\ \E u \in (IF FromLeBytes(stdout[1].len) = stdout[1].bytes.size THEN {TRUE} ELSE BOOLEAN) :
          /\ stdin' = Stream(stdout[1].len, stdout[1].bytes.size, u)
          /\ result' = ReadFrame(stdin')
    /\ pc' = "read_back"
    /\ UNCHANGED <<nread, readResult, raw, req, debugFile, message, existing, tmux,
                   calls, stdout>>

\* `while let Ok(raw) = read_message()` on the stream: the body starts on Ok,
\* the loop ends on Err.
ReadStream ==
    /\ pc = "read"
    /\ result' = ReadFrame(stdin)
    /\ readResult' = IF result'.ok THEN "Ok" ELSE result'.err
    /\ nread' = IF result'.ok THEN nread + 1 ELSE nread
    /\ pc' = IF result'.ok THEN "decode" ELSE "done"
    /\ UNCHANGED <<stdin, raw, req, debugFile, message, existing, tmux, calls, stdout>>

NextChannel == WriteMessage \/ ReadWritten \/ ReadStream

SpecChannel == InitChannel /\ [][NextChannel]_vars

---------------------------------------------------------------------------
(* Executable resolution on every disk                                     *)

\* Every set of candidate paths that may exist.
AllDisks == SUBSET {Candidates[i] : i \in 1..Len(Candidates)}

FindTmuxAny == FindTmuxOn(AllDisks)

ReadResolve == ReadOk({GoodFrame(ListDoc), GoodFrame(SendDocBasic)}, MaxReads)

ListSessionsExitsWork == ListExits({Output(0, "work\n", "")})

\* Requests that are decoded and whose invocations launch, on any disk.
NextResolve ==
    \/ ReadResolve
    \/ DecodeOk
    \/ HandleSend
    \/ HandleList
    \/ FindTmuxAny
    \/ SendText
    \/ SendTextExits
    \/ SendEnter
    \/ SendEnterExits
    \/ SendRespond
    \/ ListSpawn
    \/ ListSessionsExitsWork
    \/ ListRespond

SpecResolve == Init /\ [][NextResolve]_vars

---------------------------------------------------------------------------
(* Claims                                                                  *)

\* How often p occurs in s.
Count(s, p) == Cardinality(Occurrences(s, p))

\* The frame a step appends to stdout.
Written == stdout'[Len(stdout')]

\* A step writes one response: stdout grows by exactly one frame, at its end.
WritesOne == Len(stdout') = Len(stdout) + 1 /\ SubSeq(stdout', 1, Len(stdout)) = stdout

InvalidJsonPrefix == "{\"ok\":false,\"error\":\"Invalid JSON: "
FailedToRunPrefix == "{\"ok\":false,\"error\":\"Failed to run tmux: "
ListFailedPrefix == "{\"ok\":false,\"error\":\"tmux list-sessions failed: "
SessionsPrefix == "{\"ok\":true,\"sessions\":["
OkJson == "{\"ok\":true}"

\* text is a response the request spelled by body may get.
AnswersTo(body, text) ==
    IF ~FromStr(body).ok THEN StartsWith(text, InvalidJsonPrefix)
    ELSE IF FromStr(body).req.action = "send"
    THEN text = OkJson \/ StartsWith(text, FailedToRunPrefix)
    ELSE \/ StartsWith(text, SessionsPrefix)
         \/ StartsWith(text, FailedToRunPrefix)
         \/ StartsWith(text, ListFailedPrefix)

\* While a message is being handled its response is the one not yet written;
\* at every read (and at the exit) every message read has its response.
C1_Counts ==
    /\ pc \in {"read", "done"} => Len(stdout) = nread
    /\ pc \notin {"read", "done"} => Len(stdout) = nread - 1

\* A write appends one frame, the response to the message being handled, and
\* returns to the read; nothing else touches stdout.
C1_Writes ==
    stdout' # stdout =>
        /\ WritesOne
        /\ Len(stdout') = nread
        /\ AnswersTo(raw, Written.bytes)
        /\ pc' = "read"

\* C1: every message read_message returns gets exactly one response, written
\* before the next read_message call: at every read as many responses are
\* written as messages were read, and the k-th response answers the k-th message.
C1_OneResponsePerMessage == []C1_Counts /\ [][C1_Writes]_vars

\* Two messages read and answered, a body that does not decode and then a Send.
C1_Witness ==
    /\ pc = "read"
    /\ nread = 2
    /\ Len(stdout) = 2
    /\ StartsWith(stdout[1].bytes, InvalidJsonPrefix)
    /\ stdout[2].bytes = OkJson

\* From the moment a body that does not decode is read until its response:
\* no subprocess is invoked and the debug artifact is left alone, and the one
\* thing the process does is write the "Invalid JSON: " response and read on.
C2_Step ==
    (pc = "decode" /\ ~FromStr(raw).ok) =>
        /\ calls = <<>> /\ calls' = <<>>
        /\ debugFile' = debugFile
        /\ \/ pc' = pc /\ stdout' = stdout
           \/ /\ WritesOne
              /\ StartsWith(Written.bytes, InvalidJsonPrefix)
              /\ EndsWith(Written.bytes, "\"}")
              /\ Written.bytes = SendResponseJson([ok |-> FALSE,
                                    error |-> Some("Invalid JSON: " \o FromStr(raw).error)])
              /\ pc' = "read"

\* C2: a body that fails to decode is answered with ok=false and an error
\* that starts with "Invalid JSON: ", with no subprocess and no debug
\* artifact, and the loop continues with the next read.
C2_DecodeFailureAnswered == [][C2_Step]_vars

\* A body that did not decode was answered, and the next message has been read.
C2_Witness ==
    /\ nread = 2
    /\ pc = "decode"
    /\ Len(stdout) = 1
    /\ StartsWith(stdout[1].bytes, InvalidJsonPrefix)
    /\ debugFile = None

\* The process exits only out of a failed read_message, and writes nothing for it.
C3_ExitStep ==
    (pc # "done" /\ pc' = "done") =>
        /\ pc = "read"
        /\ readResult' \in {"UnexpectedEof", "InvalidData"}
        /\ stdout' = stdout

\* C3: the loop ends only because read_message failed (a decode error or a
\* dispatch error never ends it), no response is written for the failed read,
\* and once the caller has closed the input stream the process exits.
C3_EndsOnlyOnReadFailure == [][C3_ExitStep]_vars /\ (stdin = "closed" ~> pc = "done")

\* After a decode error and a dispatch error, the caller closed the stream
\* and the process has exited.
C3_Witness ==
    /\ pc = "done"
    /\ stdin = "closed"
    /\ readResult = "UnexpectedEof"
    /\ Len(stdout) = 2
    /\ StartsWith(stdout[1].bytes, InvalidJsonPrefix)
    /\ StartsWith(stdout[2].bytes, FailedToRunPrefix)

\* The invocations of the current request that run send-keys.
SendKeysCalls == {i \in DOMAIN calls : calls[i].args[1] = "send-keys"}

\* The per-user configuration file, as it may be while a request is handled:
\* absent, without a tmux_target value, or naming a session.
ConfigValues == {None, Some(""), Some("main")}

\* C4 as the spec states it: whatever the configuration file holds while the
\* request is handled, the session delivered to is the file's non-empty
\* tmux_target, else the request's non-empty tmux_target, else a (non-empty)
\* hardcoded fallback identifier.
C4_PrecedenceAsStated ==
    \A cfg \in ConfigValues : \A i \in SendKeysCalls :
        IF cfg # None /\ cfg[1] # "" THEN calls[i].args[3] = cfg[1]
        ELSE IF req.tmux_target # "" THEN calls[i].args[3] = req.tmux_target
        ELSE calls[i].args[3] # ""

\* C4, amended: the session a Send request is delivered to is the
\* tmux_target the request carries, as it is, also when it is empty: both
\* invocations name it after -t, whatever any configuration file holds.
C4_TargetIsRequested ==
    \A i \in SendKeysCalls :
        /\ req.action = "send"
        /\ raw.tmux_target = Some(req.tmux_target)
        /\ calls[i].args[2] = "-t"
        /\ calls[i].args[3] = req.tmux_target

\* Both invocations of a Send whose tmux_target is empty were made.
C4_Witness ==
    /\ Len(calls) = 2
    /\ req.tmux_target = ""
    /\ calls[1].args[3] = ""
    /\ calls[2].args[3] = ""

\* The invocations of a Send: the text first, with the formatted message as
\* its one last argument, and Enter only once the text invocation has
\* returned, to the same target with the same executable.
C5_Order ==
    req.action = "send" =>
        /\ Len(calls) <= 2
        /\ Len(calls) >= 1 =>
              /\ calls[1].exe = tmux
              /\ message = format_message(req.file, req.start_line, req.end_line,
                                          req.side, req.code, req.question)
              /\ calls[1].args = <<"send-keys", "-t", req.tmux_target, message>>
        /\ Len(calls) = 2 =>
              /\ calls[1].state = "exited"
              /\ calls[2].exe = calls[1].exe
              /\ calls[2].args = <<"send-keys", "-t", req.tmux_target, "Enter">>

\* The Send response is written when no invocation is running any more, and
\* says ok only after both invocations have returned.
C5_Respond ==
    (req.action = "send" /\ stdout' # stdout) =>
        /\ \A i \in DOMAIN calls : calls[i].state # "running"
        /\ calls # <<>>
        /\ Written.bytes = OkJson =>
              Len(calls) = 2 /\ \A i \in DOMAIN calls : calls[i].state = "exited"

\* C5: delivering a message runs send-keys with the formatted message as one
\* literal argument, then, only after that invocation has returned, send-keys
\* Enter to the same target with the same executable; the response is
\* written only after both have completed.
C5_TextThenEnter == []C5_Order /\ [][C5_Respond]_vars

\* Both invocations have returned, the first with a non-zero exit status, and
\* the response is about to be written.
C5_Witness ==
    /\ pc = "send_respond"
    /\ result.ok
    /\ Len(calls) = 2
    /\ calls[1].state = "exited" /\ calls[1].code = 1
    /\ calls[2].state = "exited"
    /\ calls[2].args[4] = "Enter"

\* An invocation that could not be launched is the last one of its request.
C6_NoneAfterFailure ==
    \A i \in DOMAIN calls : calls[i].state = "failed" => i = Len(calls)

\* After a launch failure the one thing the process does is write the
\* "Failed to run tmux: <cause>" response, with no other key, and read on.
C6_Step ==
    (calls # <<>> /\ calls[Len(calls)].state = "failed") =>
        \/ calls' = calls /\ stdout' = stdout /\ pc' = pc
        \/ /\ WritesOne
           /\ Written.bytes = "{\"ok\":false,\"error\":\"Failed to run tmux: "
                                  \o calls[Len(calls)].cause \o "\"}"
           /\ pc' = "read"

\* C6: a launch failure ends the operation (after a failed text invocation
\* Enter is never attempted), the response of a Send or a list-sessions whose
\* invocation could not be launched is ok=false with the error
\* "Failed to run tmux: <cause>" and no sessions key, and the loop reads on.
C6_LaunchFailureIsHard == []C6_NoneAfterFailure /\ [][C6_Step]_vars

\* Two requests whose invocation could not be launched were answered, one
\* after the other, and the loop is at its next read.
C6_Witness ==
    /\ pc = "read"
    /\ Len(stdout) = 2
    /\ \A k \in 1..2 : StartsWith(stdout[k].bytes, FailedToRunPrefix)

\* The sessions of xs from the i-th on, each followed by a line feed.
Joined[xs \in Seq(STRING), i \in Nat] ==
    IF i > Len(xs) THEN "" ELSE xs[i] \o "\n" \o Joined[xs, i + 1]

\* s from its i-th character on, without the carriage returns that stand
\* right before a line feed.
WithoutCrBeforeLf[s \in STRING, i \in Nat] ==
    IF i > Len(s) THEN ""
    ELSE (IF Char(s, i) = "\r" /\ i < Len(s) /\ Char(s, i + 1) = "\n" THEN "" ELSE Char(s, i))
            \o WithoutCrBeforeLf[s, i + 1]

\* s with a line feed after its last line, if that line has none.
Terminated(s) == IF s = "" \/ EndsWith(s, "\n") THEN s ELSE s \o "\n"

\* What list_sessions returned for the subprocess that has exited: on a
\* non-zero exit an error with the standard error text; on a zero exit the
\* lines of standard output, in order: no session holds a line feed, and the
\* sessions, each ended by a line feed, spell the output again (so nothing
\* follows the last line feed, and empty output has no sessions).
C7_Result ==
    (pc = "list_respond" /\ calls # <<>> /\ calls[Len(calls)].state = "exited") =>
        LET c == calls[Len(calls)]
        IN  IF c.code # 0
            THEN /\ ~result.ok
                 /\ result.error = "tmux list-sessions failed: " \o FromUtf8Lossy(c.err)
            ELSE /\ result.ok
                 /\ \A k \in DOMAIN result.sessions :
                       Count(result.sessions[k], "\n") = 0
                 /\ Joined[result.sessions, 1]
                       = Terminated(WithoutCrBeforeLf[FromUtf8Lossy(c.out), 1])
                 /\ c.out = "" => result.sessions = <<>>

\* The responses of the two examples, and of a non-zero exit.
C7_Examples ==
    (pc = "list_respond" /\ calls # <<>> /\ calls[Len(calls)].state = "exited"
        /\ stdout' # stdout) =>
        LET c == calls[Len(calls)]
        IN  /\ (c.code = 0 /\ c.out = "work\ndev\n") =>
                  Written.bytes = "{\"ok\":true,\"sessions\":[\"work\",\"dev\"]}"
            /\ (c.code = 0 /\ c.out = "") =>
                  Written.bytes = "{\"ok\":true,\"sessions\":[]}"
            /\ c.code # 0 => StartsWith(Written.bytes, ListFailedPrefix)

\* C7: list_sessions returns an error carrying the standard error text when
\* the multiplexer exits non-zero, and on a zero exit the lines of standard
\* output in their order, a trailing empty line dropped: "work" then "dev"
\* gives {"ok":true,"sessions":["work","dev"]}, empty output no sessions.
C7_ListSessionsLines == []C7_Result /\ [][C7_Examples]_vars

\* The multiplexer reported "work" and "dev", and the response is written.
C7_Witness ==
    /\ pc = "read"
    /\ Len(stdout) = 1
    /\ stdout[1].bytes = "{\"ok\":true,\"sessions\":[\"work\",\"dev\"]}"

ErrorShapePrefix == "{\"ok\":false,\"error\":\""

\* The response a step writes has the shape of its kind: for list-sessions
\* ok=true with sessions and no error, or ok=false with error and no
\* sessions; for a Send or a body that did not decode ok=true alone, or
\* ok=false with error.
C8_Shape ==
    stdout' # stdout =>
        LET t == Written.bytes
        IN  IF req.action = "list-sessions"
            THEN \/ /\ StartsWith(t, SessionsPrefix)
                    /\ EndsWith(t, "]}")
                    /\ Count(t, "\"error\":") = 0
                 \/ /\ StartsWith(t, ErrorShapePrefix)
                    /\ EndsWith(t, "\"}")
                    /\ Count(t, "\"sessions\":") = 0
            ELSE \/ t = OkJson
                 \/ /\ StartsWith(t, ErrorShapePrefix)
                    /\ EndsWith(t, "\"}")
                    /\ Count(t, "\"error\":") = 1

\* C8: every response written is well formed: a send or decode-error
\* response carries error exactly when ok is false, a list-sessions response
\* sessions when ok is true and error when it is false, never both; absent
\* fields are left out, so a successful Send is answered {"ok":true}.
C8_ResponseShapes == [][C8_Shape]_vars

\* A successful Send and a list-sessions with a non-zero exit were answered.
C8_Witness ==
    /\ Len(stdout) = 2
    /\ stdout[1].bytes = OkJson
    /\ StartsWith(stdout[2].bytes, ListFailedPrefix)
    /\ Count(stdout[2].bytes, "\"sessions\":") = 0

\* The index of the first line feed of s from i on, Len(s) + 1 if there is none.
FirstLineFeed[s \in STRING, i \in Nat] ==
    IF i > Len(s) THEN Len(s) + 1
    ELSE IF Char(s, i) = "\n" THEN i
    ELSE FirstLineFeed[s, i + 1]

\* The header line of a message: what stands before its first line feed.
Header(msg) == SubSeq(msg, 1, FirstLineFeed[msg, 1] - 1)

\* The location suffix as the claim's four cases give it.
C9_Expected(start_line, end_line) ==
    IF start_line = None THEN ""
    ELSE IF end_line = None THEN ":" \o ToDecimal(start_line[1])
    ELSE IF start_line = end_line THEN ":" \o ToDecimal(start_line[1])
    ELSE ":" \o ToDecimal(start_line[1]) \o "-" \o ToDecimal(end_line[1])

\* C9: the location suffix is ":{start}-{end}" when both lines are present
\* and unequal, ":{start}" when they are equal or only start_line is
\* present, and nothing when start_line is absent: the header line is the
\* file, this suffix, and at most the side marker.
C9_LocationSuffix ==
    pc = "formatted" =>
        Header(message) \in
            {req.file \o C9_Expected(req.start_line, req.end_line),
             req.file \o C9_Expected(req.start_line, req.end_line) \o DeletedMarker}

\* Both lines are present and equal, and the header has no range.
C9_Witness ==
    /\ pc = "formatted"
    /\ req.file = "a.rs"
    /\ req.start_line = Some(1)
    /\ req.end_line = Some(1)
    /\ req.side = None
    /\ Header(message) = "a.rs:1"

\* format_message called on the request with `side` in place of its side.
FormattedWithSide(side) ==
    format_message(req.file, req.start_line, req.end_line, side, req.code, req.question)

\* C10 as the spec states it: for side = old the output contains
\* " (deleted lines)" exactly once, right after the location portion and
\* before the first line feed; for side absent the output is that of
\* side = new and its header line carries no such marker.
C10_MarkerOnceAsStated ==
    pc = "formatted" =>
        /\ req.side = Some("old") =>
              /\ Header(message)
                    = req.file \o C9_Expected(req.start_line, req.end_line) \o DeletedMarker
              /\ Count(message, DeletedMarker) = 1
        /\ req.side = None =>
              /\ message = FormattedWithSide(Some("new"))
              /\ Count(Header(message), DeletedMarker) = 0

\* C10, amended: for side = old format_message appends " (deleted lines)"
\* exactly once, right after the location portion and before the first line
\* feed, so that the output contains it once more often than the file, the
\* code as embedded and the question do; for side absent the output is that
\* of side = new, and its header line is the file and the location alone.
C10_MarkerAppendedOnce ==
    pc = "formatted" =>
        /\ req.side = Some("old") =>
              /\ Header(message)
                    = req.file \o C9_Expected(req.start_line, req.end_line) \o DeletedMarker
              /\ Count(message, DeletedMarker)
                    = 1 + Count(req.file, DeletedMarker)
                        + Count(TruncatedCode(req.code), DeletedMarker)
                        + Count(req.question, DeletedMarker)
        /\ req.side = None =>
              /\ message = FormattedWithSide(Some("new"))
              /\ Header(message) = req.file \o C9_Expected(req.start_line, req.end_line)

\* A side = old request whose code itself holds the marker: the header ends
\* with the marker and the output holds it twice.
C10_Witness ==
    /\ pc = "formatted"
    /\ req.side = Some("old")
    /\ req.file = "a.rs"
    /\ req.start_line = Some(1)
    /\ req.end_line = None
    /\ Header(message) = "a.rs:1 (deleted lines)"
    /\ Count(message, DeletedMarker) = 2

\* The excerpt of a message: what stands between the line of the opening
\* fence and the line feed before the closing fence.
Excerpt(msg, question) ==
    SubSeq(msg, Len(Header(msg)) + Len(Fence) + 3,
                Len(msg) - Len(Fence) - Len(question) - 2)

\* The kept prefix of a truncated excerpt.
Kept(excerpt) == SubSeq(excerpt, 1, Len(excerpt) - Len("...(truncated)"))

\* C11: code of at most 2000 bytes is emitted as it is; longer code is cut at
\* the greatest character boundary at or before byte offset 2000 (the kept
\* text is a prefix of code, of whole characters, of at most 2000 bytes, and
\* with the next character of code it would pass 2000 bytes) and the
\* excerpt ends with "...(truncated)".
C11_CodeCap ==
    pc = "formatted" =>
        LET excerpt == Excerpt(message, req.question)
        IN  /\ message = "a.rs\n" \o Fence \o "\n" \o excerpt \o "\n" \o Fence \o "\nwhy?"
            /\ IF ByteLen(req.code) <= 2000
               THEN excerpt = req.code
               ELSE /\ EndsWith(excerpt, "...(truncated)")
                    /\ StartsWith(req.code, Kept(excerpt))
                    /\ Len(Kept(excerpt)) < Len(req.code)
                    /\ \E bytes \in {ByteLen(Kept(excerpt))} :
                          /\ bytes <= 2000
                          /\ bytes + Utf8Width(Char(req.code, Len(Kept(excerpt)) + 1)) > 2000

\* A code of 2003 bytes whose character at byte offset 1999 is 4 bytes long:
\* the cut falls before it, and 1999 bytes are kept.
C11_Witness ==
    /\ pc = "formatted"
    /\ Len(req.code) = 2000
    /\ ByteLen(req.code) = 2003
    /\ Char(req.code, 2000) = FourByteChar
    /\ ByteLen(Kept(Excerpt(message, req.question))) = 1999
    /\ EndsWith(message, "...(truncated)\n" \o Fence \o "\nwhy?")

\* C12: the output ends, right after the line of the closing fence, with the
\* question as it is when it is not empty (also when it is only white
\* space), and with "Explain this code" when it is empty.
C12_QuestionPart ==
    pc = "formatted" =>
        IF req.question = ""
        THEN EndsWith(message, "\n" \o Fence \o "\nExplain this code")
        ELSE EndsWith(message, "\n" \o Fence \o "\n" \o req.question)

\* A request with an empty question was formatted.
C12_Witness ==
    /\ pc = "formatted"
    /\ req.question = ""
    /\ req.code = "x"
    /\ EndsWith(message, "x\n" \o Fence \o "\nExplain this code")

\* C13: the message is the header line (file, location suffix, marker for
\* side = old), a line feed, a line of three backticks, the excerpt, a line
\* feed, a closing line of three backticks, a line feed and the question
\* part, and nothing else; the codes here are below the cap, so the excerpt
\* is the code.
C13_Layout ==
    pc = "formatted" =>
        message = req.file \o C9_Expected(req.start_line, req.end_line)
                      \o (IF req.side = Some("old") THEN " (deleted lines)" ELSE "")
                      \o "\n" \o Backtick \o Backtick \o Backtick \o "\n"
                      \o req.code
                      \o "\n" \o Backtick \o Backtick \o Backtick \o "\n"
                      \o (IF req.question = "" THEN "Explain this code" ELSE req.question)

\* The spec's example: a.rs, lines 5 to 9, code fn f(){}, question why?.
C13_Witness ==
    /\ pc = "formatted"
    /\ req.file = "a.rs"
    /\ req.start_line = Some(5)
    /\ req.end_line = Some(9)
    /\ req.side = None
    /\ message = "a.rs:5-9\n'''\nfn f(){}\n'''\nwhy?"

\* What a step from the decode of a body does: a body that is not JSON or
\* whose action is absent or unrecognized gets the decode-failure response
\* and no Request; action "list-sessions" gives ListSessions; action "send"
\* with file, code, question and tmux_target gives a Send with those values,
\* its optional fields absent where the body has none.
C14_Step ==
    (pc = "decode" /\ pc' # pc) =>
        /\ ~(raw.valid /\ raw.action \in {Some("send"), Some("list-sessions")}) =>
              /\ pc' = "read"
              /\ req' = NoRequest
              /\ WritesOne
              /\ StartsWith(Written.bytes, InvalidJsonPrefix)
        /\ (raw.valid /\ raw.action = Some("list-sessions")) =>
              /\ pc' = "handle"
              /\ req'.action = "list-sessions"
              /\ stdout' = stdout
        /\ (raw.valid /\ raw.action = Some("send") /\ raw.file # None /\ raw.code # None
                /\ raw.question # None /\ raw.tmux_target # None) =>
              /\ pc' = "handle"
              /\ stdout' = stdout
              /\ req'.action = "send"
              /\ <<req'.file>> = raw.file
              /\ <<req'.code>> = raw.code
              /\ <<req'.question>> = raw.question
              /\ <<req'.tmux_target>> = raw.tmux_target
              /\ req'.start_line = raw.start_line
              /\ req'.end_line = raw.end_line
              /\ req'.side = raw.side
              /\ req'.debug_html = raw.debug_html

\* C14: decoding is strict on the action and permissive on optional fields:
\* an unrecognized or absent action never yields a Send or ListSessions,
\* "list-sessions" yields ListSessions, and "send" with the required fields
\* yields Send, with absent start_line, end_line, side and debug_html absent.
C14_StrictTagPermissiveOptions == [][C14_Step]_vars

\* A Send was decoded from a body with the required fields alone.
C14_Witness ==
    /\ pc = "handle"
    /\ req.action = "send"
    /\ raw.start_line = None /\ raw.end_line = None /\ raw.side = None
    /\ raw.debug_html = None
    /\ req.start_line = None /\ req.end_line = None /\ req.side = None
    /\ req.debug_html = None
    /\ req.file = "a.rs" /\ req.tmux_target = "work"

\* The number a 4-byte little-endian prefix spells.
PrefixValue(len) == [hi |-> len[3] + 256 * len[4], lo |-> len[1] + 256 * len[2]]

\* C15: for every text, of any size, write_message emits a 4-byte
\* little-endian prefix equal to the byte length of the text and then exactly
\* that many bytes, so that read_message on its output returns the same text
\* and consumes exactly the bytes written.
C15_RoundTripAsStated ==
    /\ pc \in {"written", "read_back"} =>
          /\ Len(stdout[1].len) = 4
          /\ PrefixValue(stdout[1].len) = raw.size
          /\ stdout[1].bytes = raw
    /\ pc = "read_back" =>
          /\ result.ok
          /\ result.len = raw.size
          /\ result.consumed = WidePlus(raw.size, 4)
          /\ result.rest = Wide(0)

\* C18: read_message fails, ending the loop with nothing written, in exactly
\* three cases: the stream closes before 4 prefix bytes arrive, it closes
\* before the L bytes the prefix announces arrive, or those bytes are not
\* valid UTF-8; otherwise it returns the L bytes as text, having consumed
\* 4 + L bytes, and what follows them is still on the stream.
C18_ReadOutcome ==
    (pc \in {"decode", "done"}) =>
        LET short == Len(stdin.prefix) < 4
            cut == ~short /\ WideLess(stdin.body, PrefixValue(stdin.prefix))
        IN  IF short \/ cut \/ ~stdin.utf8
            THEN /\ pc = "done"
                 /\ ~result.ok
                 /\ readResult = (IF short \/ cut THEN "UnexpectedEof" ELSE "InvalidData")
                 /\ nread = 0
                 /\ stdout = <<>>
            ELSE /\ pc = "decode"
                 /\ result.ok
                 /\ nread = 1
                 /\ result.len = PrefixValue(stdin.prefix)
                 /\ result.consumed = WidePlus(PrefixValue(stdin.prefix), 4)
                 /\ WidePlus(result.rest, 4)
                       = WideMinus(WidePlus(stdin.body, 4), PrefixValue(stdin.prefix))

\* A frame of 256 bytes was read from a stream that holds 300 bytes more.
C18_Witness ==
    /\ pc = "decode"
    /\ stdin.prefix = <<0, 1, 0, 0>>
    /\ result.ok
    /\ result.consumed = Wide(260)
    /\ result.rest = Wide(300)

\* The executable the claim names for a disk on which `paths` exist.
C16_Expected(paths) ==
    IF "/opt/homebrew/bin/tmux" \in paths THEN "/opt/homebrew/bin/tmux"
    ELSE IF "/usr/local/bin/tmux" \in paths THEN "/usr/local/bin/tmux"
    ELSE IF "/usr/bin/tmux" \in paths THEN "/usr/bin/tmux"
    ELSE "tmux"

\* Every invocation of a request runs the executable resolved on the disk as
\* this request probed it.
C16_Resolved ==
    \A i \in DOMAIN calls : calls[i].exe = C16_Expected(existing)

\* Every deliver and every list_sessions call starts by probing the disk,
\* before its first invocation, and nothing resolved is kept from the
\* request before.
C16_Redone ==
    /\ (pc \in {"send_find", "list_find"} /\ pc' # pc) =>
          /\ calls' = <<>>
          /\ tmux' = C16_Expected(existing')
          /\ pc' = (IF pc = "send_find" THEN "send_text" ELSE "list_spawn")
    /\ (pc' \in {"send_find", "list_find"} /\ pc' # pc) =>
          /\ pc = "handle"
          /\ tmux' = ""
    /\ pc = "handle" => pc' \in {"handle", "send_find", "list_find"}

\* C16: the executable is the first of /opt/homebrew/bin/tmux,
\* /usr/local/bin/tmux, /usr/bin/tmux that exists, for every set of them that
\* exists, and "tmux" when none does; it is resolved anew in every deliver
\* and list_sessions call.
C16_FirstExistingPath == []C16_Resolved /\ [][C16_Redone]_vars

\* A second request runs /usr/local/bin/tmux, found on a disk that holds the
\* last two candidates.
C16_Witness ==
    /\ nread = 2
    /\ existing = {"/usr/local/bin/tmux", "/usr/bin/tmux"}
    /\ Len(calls) = 1
    /\ calls[1].exe = "/usr/local/bin/tmux"

\* The debug artifact changes only while a Send that carries debug_html is
\* taken up, before any invocation, and then to the debug_html text as it is
\* (replacing what the file held) or, when the write fails after the file
\* was truncated, to nothing.
C17_FileStep ==
    /\ debugFile' # debugFile =>
          /\ pc = "handle"
          /\ req.action = "send"
          /\ req.debug_html # None
          /\ calls = <<>> /\ calls' = <<>>
          /\ debugFile' \in {req.debug_html, Some("")}
    /\ (pc = "handle" /\ req.action = "send" /\ pc' # pc) =>
          /\ pc' = "send_find"
          /\ stdout' = stdout

\* Whatever became of the debug artifact, the response of a Send says ok
\* exactly when both invocations were launched.
C17_Response ==
    (pc = "send_respond" /\ stdout' # stdout) =>
        (Written.bytes = OkJson <=>
            (Len(calls) = 2 /\ \A i \in DOMAIN calls : calls[i].state = "exited"))

\* C17: a Send that carries debug_html has the text written as it is to the
\* debug file, over what the file held, before the message is dispatched;
\* other requests leave the file alone; and whether the write succeeds,
\* fails or is skipped changes neither the delivery nor the response.
C17_DebugArtifact == [][C17_FileStep /\ C17_Response]_vars

\* A Send with debug_html was delivered and answered ok, its debug_html is in
\* the file, and a list-sessions request after it has left the file alone.
C17_Witness ==
    /\ nread = 2
    /\ pc = "list_respond"
    /\ debugFile = Some("<p>")
    /\ Len(stdout) = 1
    /\ stdout[1].bytes = OkJson

\* After the text invocation has returned, with whatever exit status, the
\* next thing is the launch of the Enter invocation; and once both
\* invocations have returned the response is {"ok":true}.
C19_Step ==
    /\ (pc = "send_text_wait" /\ pc' # pc) =>
          /\ pc' = "send_enter"
          /\ calls'[1].state = "exited"
    /\ (pc = "send_enter" /\ pc' # pc) =>
          /\ Len(calls') = 2
          /\ calls'[2].args = <<"send-keys", "-t", req.tmux_target, "Enter">>
          /\ calls'[1] = calls[1]
    /\ (pc = "send_enter_wait" /\ pc' # pc) => pc' = "send_respond" /\ result'.ok
    /\ (pc = "send_respond" /\ stdout' # stdout /\ Len(calls) = 2
            /\ \A i \in DOMAIN calls : calls[i].state = "exited") =>
          Written.bytes = "{\"ok\":true}"

\* C19: the outcome of a Send depends on whether its invocations could be
\* launched, not on their exit status: after a text invocation that exits
\* non-zero the Enter invocation is still run, and when both were launched
\* the response is {"ok":true}.
C19_ExitStatusIgnored == [][C19_Step]_vars

\* Both invocations have exited non-zero, and send_to_tmux has returned Ok(()).
C19_Witness ==
    /\ pc = "send_respond"
    /\ Len(calls) = 2
    /\ calls[1].code = 1
    /\ calls[2].code = 1
    /\ result = Ok(<<>>)

===========================================================================
